---- MODULE Spec2Model ----
(***************************************************************************)
(* A model of package ndb (src/ndb.go): the tuple parser, the record       *)
(* assembler, the file loader, the chain built by Open, and the operations *)
(* Search, Changed and Reopen on a chain.                                  *)
(*                                                                         *)
(* Text is modelled character by character: a string is a sequence of      *)
(* one-character strings, so that tokenizing, splitting on "=", trimming   *)
(* quotes and splitting into lines are computed as the code computes them. *)
(* A Go nil slice and an empty slice are both the empty sequence.          *)
(*                                                                         *)
(* The file system is a map from path to (exists, mtime, data); another    *)
(* process writes or removes files between the caller's calls, and every   *)
(* write gets a new modification time.  A call is one step.  os.Open and   *)
(* os.Stat fail exactly on a file that does not exist; read errors on an   *)
(* open file and lines beyond the scanner's buffer are left out.  A loop   *)
(* over a chain whose next pointers lead back into the chain never ends:   *)
(* such a call does not return, which is recorded as hung, and the caller  *)
(* makes no further call.                                                  *)
(*                                                                         *)
(* Three specifications: Spec (Open, Search, Changed, Reopen against a     *)
(* changing file system), SpecTuples (parsetuples on every bounded line)   *)
(* and SpecRec (parserec on every bounded file).                           *)
(***************************************************************************)
EXTENDS Integers, Sequences, FiniteSets, TLC

VARIABLES
    arg,        \* the input handed to parsetuples / parserec (pure-function specifications)
    res,        \* what parsetuples / parserec returned for arg
    disk,       \* the file system: path -> [exists, mtime, data]
    clock,      \* the file system's time; every write stamps and advances it
    heap,       \* the Ndb objects of the caller's chain: id -> Ndb struct
    root,       \* the *Ndb the caller holds (0 is nil)
    ret,        \* the last call or file-system event and what it returned
    modified    \* has a file been written or removed since the last successful Open/Reopen

vars == <<arg, res, disk, clock, heap, root, ret, modified>>

----------------------------------------------------------------------------
(* Bounds *)

MaxLineLen == 4
MaxDataLen == 5
MaxClock == 2

----------------------------------------------------------------------------
(* Characters and strings *)

QUOTE == "\""

\* unicode.IsSpace, restricted to the characters of the model
IsSpace(c) == c \in {" ", "\t", "\n", "\r"}

LineAlphabet == {"a", "=", " ", "#", QUOTE}
DataAlphabet == {"a", "=", " ", "#", "\n"}

BoundedSeq(S, n) == UNION {[1..k -> S] : k \in 0..n}

\* error values: "nil" is Go's nil error
NoErr == "nil"
ErrInvalidTuple == "invalid tuple"
ErrPanic == "panic: index out of range"
ErrOpen == "open"
ErrStat == "stat"

Tuple(a, v) == [Attr |-> a, Val |-> v]

----------------------------------------------------------------------------
(* scanStrings, driven by bufio.Scanner: the tokens of a line *)

RECURSIVE SkipSpaces(_, _)
\* first index >= i of s that is not a space (Len(s)+1 when there is none)
SkipSpaces(s, i) ==
    IF i > Len(s) THEN i
    ELSE IF IsSpace(s[i]) THEN SkipSpaces(s, i + 1) ELSE i

RECURSIVE TokenEnd(_, _, _)
\* index of the unquoted space that ends the word scanned from i
\* (Len(s)+1 when the word runs to the end of the input)
TokenEnd(s, i, inquote) ==
    IF i > Len(s) THEN i
    ELSE IF s[i] = QUOTE THEN TokenEnd(s, i + 1, ~inquote)
    ELSE IF IsSpace(s[i]) /\ ~inquote THEN i
    ELSE TokenEnd(s, i + 1, inquote)

RECURSIVE scanStrings(_, _)
\* the successive tokens the scanner yields for s from index i on
scanStrings(s, i) ==
    LET start == SkipSpaces(s, i) IN
    IF start > Len(s) THEN <<>>
    ELSE LET e == TokenEnd(s, start, FALSE) IN
         <<SubSeq(s, start, e - 1)>> \o scanStrings(s, e + 1)

----------------------------------------------------------------------------
(* strings.SplitN(s, "=", 2), strings.TrimLeft / TrimRight *)

RECURSIVE IndexOf(_, _, _)
\* first index >= i of s holding c, 0 when there is none
IndexOf(s, c, i) ==
    IF i > Len(s) THEN 0
    ELSE IF s[i] = c THEN i ELSE IndexOf(s, c, i + 1)

SplitN2(s) ==
    LET k == IndexOf(s, "=", 1) IN
    IF k = 0 THEN <<s>>
    ELSE <<SubSeq(s, 1, k - 1), SubSeq(s, k + 1, Len(s))>>

RECURSIVE TrimLeft(_, _)
TrimLeft(s, c) ==
    IF s # <<>> /\ Head(s) = c THEN TrimLeft(Tail(s), c) ELSE s

RECURSIVE TrimRight(_, _)
TrimRight(s, c) ==
    IF s # <<>> /\ s[Len(s)] = c THEN TrimRight(SubSeq(s, 1, Len(s) - 1), c) ELSE s

----------------------------------------------------------------------------
(* parsetuples *)

RECURSIVE TupleLoop(_, _, _)
\* the for scanw.Scan() loop over the tokens toks from index i, tuples so far acc
TupleLoop(toks, i, acc) ==
    IF i > Len(toks) THEN [tuples |-> acc, err |-> NoErr]
    ELSE LET spl == SplitN2(toks[i]) IN
         IF Len(spl) # 2 THEN [tuples |-> <<>>, err |-> ErrInvalidTuple]
         ELSE TupleLoop(toks, i + 1,
                        Append(acc, Tuple(spl[1], TrimRight(TrimLeft(spl[2], QUOTE), QUOTE))))

parsetuples(line) ==
    IF line = <<>> THEN [tuples |-> <<>>, err |-> ErrPanic]
    ELSE IF line[1] = "#" THEN [tuples |-> <<>>, err |-> NoErr]
    ELSE TupleLoop(scanStrings(line, 1), 1, <<>>)

----------------------------------------------------------------------------
(* bufio.ScanLines: the lines of a file *)

\* dropCR: a line loses one trailing carriage return
dropCR(l) ==
    IF l # <<>> /\ l[Len(l)] = "\r" THEN SubSeq(l, 1, Len(l) - 1) ELSE l

RECURSIVE ScanLines(_)
\* the lines the default bufio.Scanner yields for data: split at each newline,
\* the final unterminated line included when it is non-empty
ScanLines(d) ==
    IF d = <<>> THEN <<>>
    ELSE LET k == IndexOf(d, "\n", 1) IN
         IF k = 0 THEN <<dropCR(d)>>
         ELSE <<dropCR(SubSeq(d, 1, k - 1))>> \o ScanLines(SubSeq(d, k + 1, Len(d)))

----------------------------------------------------------------------------
(* parserec *)

\* one iteration of the for scanl.Scan() loop; st = [records, rec, err, brk]
RecLine(st, line) ==
    IF line = <<>> THEN st
    ELSE IF line[1] = "#" THEN st
    ELSE LET started == IF ~IsSpace(line[1])
                        THEN [st EXCEPT !.records = Append(st.records, st.rec), !.rec = <<>>]
                        ELSE st
             t == parsetuples(line)
         IN  \* the code tests err, the function's own error variable, not terr
             IF started.err # NoErr
             THEN [started EXCEPT !.err = t.err, !.brk = TRUE]
             ELSE [started EXCEPT !.rec = started.rec \o t.tuples]

RECURSIVE RecLoop(_, _, _)
\* the loop from line i on; nxt is the state after the iteration on lines[i]
RecLoop(st, lines, i) ==
    IF i > Len(lines) \/ st.brk THEN st
    ELSE CHOOSE r \in {RecLoop(nxt, lines, i + 1) : nxt \in {RecLine(st, lines[i])}} : TRUE

\* parserec with records := make(RecordSet, 0): no record before the first append
parserecNoPlaceholder(d) ==
    CHOOSE r \in {[records |-> Append(st.records, st.rec), err |-> st.err] :
                  st \in {RecLoop([records |-> <<>>, rec |-> <<>>, err |-> NoErr, brk |-> FALSE],
                                  lines, 1) : lines \in {ScanLines(d)}}} : TRUE

\* records := make(RecordSet, 1) is one nil record; var rec Record is nil
\* (st is the state when the loop is left; the last record is appended then)
parserec(d) ==
    CHOOSE r \in {[records |-> Append(st.records, st.rec), err |-> st.err] :
                  st \in {RecLoop([records |-> << <<>> >>, rec |-> <<>>, err |-> NoErr, brk |-> FALSE],
                                  lines, 1) : lines \in {ScanLines(d)}}} : TRUE

----------------------------------------------------------------------------
(* The lines and files the parser is exercised on *)

\* the lines of TestParseTuples, and tokens that begin with "="
LineOneComment == <<"o", "n", "e", "=", "o", "n", "e", " ", "#", " ", "a", " ", "c", "o", "m", "m", "e", "n", "t">>
LineOne == <<"o", "n", "e", "=", "o", "n", "e">>
LineAnts == <<"a", "n", "t", "s", "=", "s", "m", "a", "l", "l", " ", "c", "a", "t", "s", "=", "m", "e", "d", "i", "u", "m", " ", "d", "o", "g", "s", "=", QUOTE, "v", "e", "r", "y", " ", "l", "a", "r", "g", "e", QUOTE, " ", "a", "l", "i", "e", "n", "s", "=">>
LineEqValue == <<"=", "v", "a", "l", "u", "e">>
LineLoneEq == <<"=">>
StrOne == <<"o", "n", "e">>
StrValue == <<"v", "a", "l", "u", "e">>

ExampleLines == {LineOneComment, LineOne, LineAnts, LineEqValue, LineLoneEq}

\* files with continuation lines, a carriage return, a comment line, a malformed token
DataTwoRecords == <<"a", "=", "1", " ", "b", "=", "2", "\n", "\t", "c", "=", "3", "\n", "\n", "d", "=", "\n", "#", " ", "x", "\n", " ", "e", "=", "5">>
DataCRLF == <<"a", "=", "1", "\r", "\n", " ", "b", "=", "2", "\r", "\n", "c", "=", "3", "\r", "\n">>
DataLeadingContinuation == <<" ", "a", "=", "1", "\n", "b", "=", "2", "\n">>
DataMalformed == <<"a", "=", "1", "\n", "b", "=", "2", " ", "j", "u", "n", "k", "\n", " ", "c", "=", "3", "\n", "d", "=", "4">>

ExampleData == {DataTwoRecords, DataCRLF, DataLeadingContinuation, DataMalformed}

NoResult == [done |-> FALSE, tuples |-> <<>>, records |-> <<>>, err |-> NoErr]

----------------------------------------------------------------------------
(* Files *)

\* const NdbLocal = "/lib/ndb/local"
NdbLocal == <<"/", "l", "i", "b", "/", "n", "d", "b", "/", "l", "o", "c", "a", "l">>
PathCommon == <<"c">>
PathExtra == <<"x">>
Paths == {NdbLocal, PathCommon, PathExtra}

StrDatabase == <<"d", "a", "t", "a", "b", "a", "s", "e">>
StrFile == <<"f", "i", "l", "e">>
StrSys == <<"s", "y", "s">>
StrIp == <<"i", "p">>
StrDom == <<"d", "o", "m">>

\* contents of the head file: the position of the file= tuple naming the head itself varies
HeadBackrefFirst == <<"d", "a", "t", "a", "b", "a", "s", "e", "=", "\n", "\t", "f", "i", "l", "e", "=", "/", "l", "i", "b", "/", "n", "d", "b", "/", "l", "o", "c", "a", "l", "\n", "\t", "f", "i", "l", "e", "=", "c", "\n", "s", "y", "s", "=", "a", " ", "i", "p", "=", "1", " ", "i", "p", "=", "2", "\n">>
HeadBackrefLast == <<"d", "a", "t", "a", "b", "a", "s", "e", "=", " ", "f", "i", "l", "e", "=", "c", " ", "f", "i", "l", "e", "=", "/", "l", "i", "b", "/", "n", "d", "b", "/", "l", "o", "c", "a", "l", "\n", "s", "y", "s", "=", "a", " ", "i", "p", "=", "1", "\n">>
HeadBackrefMiddle == <<"d", "a", "t", "a", "b", "a", "s", "e", "=", " ", "f", "i", "l", "e", "=", "c", " ", "f", "i", "l", "e", "=", "/", "l", "i", "b", "/", "n", "d", "b", "/", "l", "o", "c", "a", "l", " ", "f", "i", "l", "e", "=", "x", "\n", "s", "y", "s", "=", "a", " ", "i", "p", "=", "1", "\n">>
HeadNoBackref == <<"d", "a", "t", "a", "b", "a", "s", "e", "=", " ", "f", "i", "l", "e", "=", "c", " ", "f", "i", "l", "e", "=", "x", "\n", "s", "y", "s", "=", "a", " ", "i", "p", "=", "1", "\n">>
HeadNoDatabase == <<"s", "y", "s", "=", "a", " ", "i", "p", "=", "1", " ", "i", "p", "=", "2", "\n">>
HeadMalformed == <<"d", "a", "t", "a", "b", "a", "s", "e", "=", " ", "f", "i", "l", "e", "=", "c", "\n", "s", "y", "s", "=", "a", " ", "o", "o", "p", "s", "\n">>
CommonData == <<"s", "y", "s", "=", "b", " ", "i", "p", "=", "2", " ", "i", "p", "=", "2", "\n", " ", "d", "o", "m", "=", "\n">>
CommonData2 == <<"s", "y", "s", "=", "b", " ", "i", "p", "=", "7", "\n">>
ExtraData == <<"s", "y", "s", "=", "c", " ", "i", "p", "=", "1", "\n">>

HeadContents == {HeadBackrefFirst, HeadBackrefLast, HeadBackrefMiddle,
                 HeadNoBackref, HeadNoDatabase, HeadMalformed}

ContentsFor(p) ==
    IF p = NdbLocal THEN HeadContents
    ELSE IF p = PathCommon THEN {CommonData, CommonData2}
    ELSE {ExtraData}

File(m, d) == [exists |-> TRUE, mtime |-> m, data |-> d]
NoFile == [exists |-> FALSE, mtime |-> 0, data |-> <<>>]

\* os.Stat / os.Open succeed exactly on the files that exist
Exists(dsk, p) == p \in DOMAIN dsk /\ dsk[p].exists

----------------------------------------------------------------------------
(* type Ndb struct, and walking a chain through next *)

Ndb(f, d, m, r, n) == [filename |-> f, data |-> d, mtime |-> m, records |-> r, next |-> n]

NilNdb == Ndb(<<>>, <<>>, 0, <<>>, 0)

RECURSIVE ChainWalk(_, _, _)
\* for db := n; db != nil; db = db.next: the handles visited from id, in order,
\* up to the terminal nil or to the first handle met a second time
ChainWalk(h, id, seen) ==
    IF id = 0 \/ id \in seen THEN <<>>
    ELSE <<id>> \o ChainWalk(h, h[id].next, seen \cup {id})

\* the walk never reaches nil: next leads back to a handle already visited
Cyclic(h, id) ==
    LET w == ChainWalk(h, id, {}) IN
    w # <<>> /\ h[w[Len(w)]].next # 0

----------------------------------------------------------------------------
(* openone *)

openone(fname, dsk) ==
    IF ~Exists(dsk, fname) THEN [db |-> NilNdb, err |-> ErrOpen]
    ELSE LET pr == parserec(dsk[fname].data) IN
         IF pr.err # NoErr THEN [db |-> NilNdb, err |-> pr.err]
         ELSE [db |-> Ndb(fname, dsk[fname].data, dsk[fname].mtime, pr.records, 0),
               err |-> NoErr]

----------------------------------------------------------------------------
(* Ndb.Search *)

RECURSIVE SearchTuples(_, _, _, _)
\* the loop over the tuples of one record, from tuple i: the record is appended
\* once for every tuple that matches
SearchTuples(record, i, attr, val) ==
    IF i > Len(record) THEN <<>>
    ELSE LET tuple == record[i]
             hit == IF val = <<>> /\ tuple.Attr = attr THEN TRUE
                    ELSE tuple.Attr = attr /\ tuple.Val = val
         IN (IF hit THEN <<record>> ELSE <<>>) \o SearchTuples(record, i + 1, attr, val)

RECURSIVE SearchRecords(_, _, _, _)
SearchRecords(records, i, attr, val) ==
    IF i > Len(records) THEN <<>>
    ELSE SearchTuples(records[i], 1, attr, val) \o SearchRecords(records, i + 1, attr, val)

RECURSIVE SearchChain(_, _, _, _, _)
SearchChain(h, w, i, attr, val) ==
    IF i > Len(w) THEN <<>>
    ELSE SearchRecords(h[w[i]].records, 1, attr, val) \o SearchChain(h, w, i + 1, attr, val)

\* the result of n.Search(attr, val) on a chain that ends; on a chain that does
\* not end the loop never leaves and nothing is returned
SearchResult(h, n, attr, val) == SearchChain(h, ChainWalk(h, n, {}), 1, attr, val)

----------------------------------------------------------------------------
(* Open *)

\* one iteration of for _, files := range dbrec[0]; st = [heap, first, last, db, err]
OpenTuple(st, files, fname, dsk) ==
    IF files.Attr # StrFile THEN st
    ELSE IF files.Val = fname
    THEN IF st.heap[st.first].next = 0 THEN st
         ELSE IF st.heap[st.first].filename = fname
              THEN \* db = first; first = first.next; last.next = db; last = db
                   [st EXCEPT !.db = st.first,
                              !.first = st.heap[st.first].next,
                              !.heap = [st.heap EXCEPT ![st.last].next = st.first],
                              !.last = st.first]
              ELSE st
    ELSE LET o == openone(files.Val, dsk) IN
         IF o.err # NoErr THEN [st EXCEPT !.err = o.err]
         ELSE LET id == Len(st.heap) + 1
                  h2 == Append(st.heap, o.db)
              IN [st EXCEPT !.db = id,
                            !.heap = [h2 EXCEPT ![st.last].next = id],
                            !.last = id]

RECURSIVE OpenLoop(_, _, _, _, _)
OpenLoop(st, rec, i, fname, dsk) ==
    IF i > Len(rec) \/ st.err # NoErr THEN st
    ELSE CHOOSE r \in {OpenLoop(nxt, rec, i + 1, fname, dsk) :
                       nxt \in {OpenTuple(st, rec[i], fname, dsk)}} : TRUE

\* Open(fname0) against the file system dsk: [heap, first, err]; on an error
\* the caller gets nil
OpenChain(fname0, dsk) ==
    LET fname == IF fname0 = <<>> THEN NdbLocal ELSE fname0
        o == openone(fname, dsk)
    IN IF o.err # NoErr THEN [heap |-> <<>>, first |-> 0, err |-> o.err]
       ELSE LET h0 == <<o.db>>
                dbrec == SearchResult(h0, 1, StrDatabase, <<>>)
                st0 == [heap |-> h0, first |-> 1, last |-> 1, db |-> 1, err |-> NoErr]
                st == IF dbrec # <<>> THEN OpenLoop(st0, dbrec[1], 1, fname, dsk) ELSE st0
            IN IF st.err # NoErr THEN [heap |-> <<>>, first |-> 0, err |-> st.err]
               ELSE [heap |-> st.heap, first |-> st.first, err |-> NoErr]

----------------------------------------------------------------------------
(* Ndb.Reopen and Ndb.Changed *)

RECURSIVE ReopenLoop(_, _, _, _)
\* the handles w[i..] are reloaded one after the other; the first failure returns
ReopenLoop(h, w, i, dsk) ==
    IF i > Len(w) THEN [heap |-> h, err |-> NoErr]
    ELSE CHOOSE r \in
           {IF o.err # NoErr THEN [heap |-> h, err |-> o.err]
            ELSE ReopenLoop([h EXCEPT ![w[i]].data = o.db.data,
                                      ![w[i]].mtime = o.db.mtime,
                                      ![w[i]].records = o.db.records],
                            w, i + 1, dsk) : o \in {openone(h[w[i]].filename, dsk)}} : TRUE

RECURSIVE ChangedLoop(_, _, _, _)
\* "end" when every handle of the walk was stat-ed and none differed
ChangedLoop(h, w, i, dsk) ==
    IF i > Len(w) THEN [changed |-> FALSE, err |-> NoErr, end |-> TRUE]
    ELSE IF ~Exists(dsk, h[w[i]].filename)
         THEN [changed |-> FALSE, err |-> ErrStat, end |-> FALSE]
    ELSE IF h[w[i]].mtime # dsk[h[w[i]].filename].mtime
         THEN [changed |-> TRUE, err |-> NoErr, end |-> FALSE]
    ELSE ChangedLoop(h, w, i + 1, dsk)

----------------------------------------------------------------------------
(* The caller and the file system as a state machine *)

Ret(op, a1, a2, err, changed, result, hung) ==
    [op |-> op, a1 |-> a1, a2 |-> a2, err |-> err, changed |-> changed,
     result |-> result, hung |-> hung]

OpenNames == {<<>>, NdbLocal, PathCommon}
SearchAttrs == {StrSys, StrIp}
SearchVals == {<<>>, <<"2">>}

InitDisk(hc) ==
    [p \in Paths |-> IF p = NdbLocal THEN File(0, hc)
                     ELSE IF p = PathCommon THEN File(0, CommonData)
                     ELSE File(0, ExtraData)]

Init ==
    /\ arg = <<>>
    /\ res = NoResult
    /\ \E hc \in HeadContents : disk = InitDisk(hc)
    /\ clock = 1
    /\ heap = <<>>
    /\ root = 0
    /\ ret = Ret("init", <<>>, <<>>, NoErr, FALSE, <<>>, FALSE)
    /\ modified = FALSE

\* db, err := Open(fname): on success the caller holds the new chain, on an
\* error it keeps what it had
Open(fname) ==
    /\ ~ret.hung
    /\ LET o == OpenChain(fname, disk) IN
       /\ ret' = Ret("Open", fname, <<>>, o.err, FALSE, <<>>, FALSE)
       /\ IF o.err = NoErr
          THEN heap' = o.heap /\ root' = o.first /\ modified' = FALSE
          ELSE UNCHANGED <<heap, root, modified>>
    /\ UNCHANGED <<arg, res, disk, clock>>

Reopen ==
    /\ ~ret.hung
    /\ root # 0
    /\ LET r == ReopenLoop(heap, ChainWalk(heap, root, {}), 1, disk)
           hung == r.err = NoErr /\ Cyclic(heap, root)
       IN /\ heap' = r.heap
          /\ ret' = Ret("Reopen", <<>>, <<>>, r.err, FALSE, <<>>, hung)
          /\ modified' = IF r.err = NoErr /\ ~hung THEN FALSE ELSE modified
    /\ UNCHANGED <<arg, res, disk, clock, root>>

Changed ==
    /\ ~ret.hung
    /\ root # 0
    /\ LET c == ChangedLoop(heap, ChainWalk(heap, root, {}), 1, disk)
       IN ret' = Ret("Changed", <<>>, <<>>, c.err, c.changed, <<>>,
                     c.end /\ Cyclic(heap, root))
    /\ UNCHANGED <<arg, res, disk, clock, heap, root, modified>>

Search(attr, val) ==
    /\ ~ret.hung
    /\ root # 0
    /\ ret' = IF Cyclic(heap, root)
              THEN Ret("Search", attr, val, NoErr, FALSE, <<>>, TRUE)
              ELSE Ret("Search", attr, val, NoErr, FALSE,
                       SearchResult(heap, root, attr, val), FALSE)
    /\ UNCHANGED <<arg, res, disk, clock, heap, root, modified>>

\* another process writes a file: new contents, new modification time
WriteFile(p, d) ==
    /\ clock <= MaxClock
    /\ disk' = [disk EXCEPT ![p] = File(clock, d)]
    /\ clock' = clock + 1
    /\ modified' = TRUE
    /\ ret' = Ret("WriteFile", p, <<>>, NoErr, FALSE, <<>>, ret.hung)
    /\ UNCHANGED <<arg, res, heap, root>>

\* another process removes a file
RemoveFile(p) ==
    /\ clock <= MaxClock
    /\ disk[p].exists
    /\ disk' = [disk EXCEPT ![p] = NoFile]
    /\ clock' = clock + 1
    /\ modified' = TRUE
    /\ ret' = Ret("RemoveFile", p, <<>>, NoErr, FALSE, <<>>, ret.hung)
    /\ UNCHANGED <<arg, res, heap, root>>

Next ==
    \/ \E f \in OpenNames : Open(f)
    \/ Reopen
    \/ Changed
    \/ \E a \in SearchAttrs, v \in SearchVals : Search(a, v)
    \/ \E p \in Paths : \E d \in ContentsFor(p) : WriteFile(p, d)
    \/ \E p \in Paths : RemoveFile(p)

Spec == Init /\ [][Next]_vars

----------------------------------------------------------------------------
(* parsetuples and parserec applied to every bounded input *)

IdleMain ==
    /\ disk = InitDisk(HeadBackrefFirst)
    /\ clock = 1
    /\ heap = <<>>
    /\ root = 0
    /\ ret = Ret("init", <<>>, <<>>, NoErr, FALSE, <<>>, FALSE)
    /\ modified = FALSE

InitTuples ==
    /\ arg \in BoundedSeq(LineAlphabet, MaxLineLen) \cup ExampleLines
    /\ res = NoResult
    /\ IdleMain

CallParsetuples ==
    /\ ~res.done
    /\ LET t == parsetuples(arg) IN
       res' = [done |-> TRUE, tuples |-> t.tuples, records |-> <<>>, err |-> t.err]
    /\ UNCHANGED <<arg, disk, clock, heap, root, ret, modified>>

NextTuples == CallParsetuples

SpecTuples == InitTuples /\ [][NextTuples]_vars

InitRec ==
    /\ arg \in BoundedSeq(DataAlphabet, MaxDataLen) \cup ExampleData
    /\ res = NoResult
    /\ IdleMain

CallParserec ==
    /\ ~res.done
    /\ LET r == parserec(arg) IN
       res' = [done |-> TRUE, tuples |-> <<>>, records |-> r.records, err |-> r.err]
    /\ UNCHANGED <<arg, disk, clock, heap, root, ret, modified>>

NextRec == CallParserec

SpecRec == InitRec /\ [][NextRec]_vars

----------------------------------------------------------------------------
(* Properties of parsetuples (SpecTuples) *)

RECURSIVE FirstUnquotedHash(_, _, _)
\* index of the first "#" of s, from i on, outside double quotes; 0 when none
FirstUnquotedHash(s, i, inquote) ==
    IF i > Len(s) THEN 0
    ELSE IF s[i] = QUOTE THEN FirstUnquotedHash(s, i + 1, ~inquote)
    ELSE IF s[i] = "#" /\ ~inquote THEN i
    ELSE FirstUnquotedHash(s, i + 1, inquote)

BeforeComment(s) == SubSeq(s, 1, FirstUnquotedHash(s, 1, FALSE) - 1)

\* the line has an unquoted "#" that comes after at least one well-formed tuple
HasTrailingComment(s) ==
    /\ FirstUnquotedHash(s, 1, FALSE) > 1
    /\ parsetuples(BeforeComment(s)).err = NoErr
    /\ parsetuples(BeforeComment(s)).tuples # <<>>

\* C7: parsing a line with a trailing comment returns no error and exactly the
\* tuples of the text before the first unquoted "#"; "one=one # a comment"
\* gives the single tuple {one, one}.
C7_TrailingCommentIgnored ==
    /\ (res.done /\ arg = LineOneComment)
          => (res.err = NoErr /\ res.tuples = <<Tuple(StrOne, StrOne)>>)
    /\ (res.done /\ HasTrailingComment(arg))
          => (res.err = NoErr /\ res.tuples = parsetuples(BeforeComment(arg)).tuples)

\* C9: every tuple parsetuples returns without error has a non-empty Attr, also
\* for a token that begins with "=".
C9_AttrNonEmpty ==
    (res.done /\ res.err = NoErr)
        => \A i \in 1..Len(res.tuples) : res.tuples[i].Attr # <<>>

----------------------------------------------------------------------------
(* Properties of parserec (SpecRec) *)

IsSkipped(l) == l = <<>> \/ l[1] = "#"
IsStart(l) == ~IsSkipped(l) /\ ~IsSpace(l[1])
LineTuples(l) == IF IsSkipped(l) THEN <<>> ELSE parsetuples(l).tuples

\* some non-blank, non-comment line holds a token without "="
HasMalformedToken(d) ==
    \E i \in 1..Len(ScanLines(d)) :
        LET l == ScanLines(d)[i] IN
        /\ ~IsSkipped(l)
        /\ \E j \in 1..Len(scanStrings(l, 1)) : IndexOf(scanStrings(l, 1)[j], "=", 1) = 0

WellFormed(d) == ~HasMalformedToken(d)

\* the record-starting lines, counted on the raw bytes: a line start holding a
\* character that is neither a newline, a "#" nor a space
NumStartLines(d) ==
    Cardinality({i \in 1..Len(d) : /\ (i = 1 \/ d[i - 1] = "\n")
                                   /\ d[i] # "\n" /\ d[i] # "#" /\ ~IsSpace(d[i])})

StartIndexes(lines) == {i \in 1..Len(lines) : IsStart(lines[i])}

\* line index of the k-th record-starting line; 0 for k = 0, past the end for k > N
KthStart(lines, k) ==
    IF k = 0 THEN 0
    ELSE IF k > Cardinality(StartIndexes(lines)) THEN Len(lines) + 1
    ELSE CHOOSE i \in StartIndexes(lines) :
             Cardinality({j \in StartIndexes(lines) : j <= i}) = k

RECURSIVE ConcatTuples(_, _, _)
ConcatTuples(lines, i, j) ==
    IF i > j THEN <<>>
    ELSE IF i < 1 THEN ConcatTuples(lines, 1, j)
    ELSE LineTuples(lines[i]) \o ConcatTuples(lines, i + 1, j)

\* the tuples of the k-th record-starting line and of the lines up to the next
\* one; for k = 0 the tuples of the lines before the first record-starting line
RecordOf(d, k) ==
    ConcatTuples(ScanLines(d), KthStart(ScanLines(d), k), KthStart(ScanLines(d), k + 1) - 1)

\* C5: a file with a token that has no "=" on a non-blank, non-comment line is
\* never parsed successfully: parserec returns an error.
C5_MalformedTokenFails ==
    (res.done /\ HasMalformedToken(arg)) => res.err # NoErr

\* C8 as stated: a well-formed file with N >= 1 record-starting lines gives
\* exactly N+1 records, an empty placeholder at index 0 followed by the N
\* records in source order.
C8_NPlusOneRecords ==
    (res.done /\ WellFormed(arg) /\ NumStartLines(arg) >= 1)
        => /\ Len(res.records) = NumStartLines(arg) + 1
           /\ res.records = << <<>> >> \o [k \in 1..NumStartLines(arg) |-> RecordOf(arg, k)]

\* C8 amended: a well-formed file with N >= 1 record-starting lines gives
\* exactly N+2 records: an empty record at index 0, at index 1 the record in
\* progress before the first record-starting line (empty unless continuation
\* lines precede it), then the N records in source order, each with the tuples
\* of its starting line and of its continuation lines in order.
C8_NPlusTwoRecords ==
    (res.done /\ WellFormed(arg) /\ NumStartLines(arg) >= 1)
        => /\ Len(res.records) = NumStartLines(arg) + 2
           /\ res.err = NoErr
           /\ res.records =
                 << <<>> >> \o [k \in 1..(NumStartLines(arg) + 1) |-> RecordOf(arg, k - 1)]

\* a well-formed file with two record-starting lines, the second record
\* continued on a further line, has been parsed
C8_Witness ==
    /\ res.done
    /\ WellFormed(arg)
    /\ NumStartLines(arg) = 2
    /\ Len(res.records) = 4
    /\ Len(res.records[3]) >= 2
    /\ Len(res.records[4]) >= 2

----------------------------------------------------------------------------
(* Properties of Open, Search, Changed and Reopen (Spec) *)

\* the record holds a tuple with Attr = attr and, when val is not empty, Val = val
Matches(record, attr, val) ==
    \E i \in 1..Len(record) :
        record[i].Attr = attr /\ (val = <<>> \/ record[i].Val = val)

RECURSIVE Flatten(_, _)
\* the records of the handles w[i..], one handle after the other
Flatten(w, i) ==
    IF i > Len(w) THEN <<>> ELSE heap[w[i]].records \o Flatten(w, i + 1)

\* every record of the caller's chain, each handle once, in chain order
ChainRecords == Flatten(ChainWalk(heap, root, {}), 1)

MatchingIn(attr, val) == {i \in 1..Len(ChainRecords) : Matches(ChainRecords[i], attr, val)}

RECURSIVE Select(_, _, _, _)
\* the records of rs[i..] that match, each once, in order
Select(rs, i, attr, val) ==
    IF i > Len(rs) THEN <<>>
    ELSE (IF Matches(rs[i], attr, val) THEN <<rs[i]>> ELSE <<>>) \o Select(rs, i + 1, attr, val)

ChainNames == [i \in 1..Len(ChainWalk(heap, root, {})) |-> heap[ChainWalk(heap, root, {})[i]].filename]

\* the values of the file tuples of the first record that has a database tuple,
\* in order, those equal to skip left out
RECURSIVE FileVals(_, _, _)
FileVals(rec, i, skip) ==
    IF i > Len(rec) THEN <<>>
    ELSE (IF rec[i].Attr = StrFile /\ rec[i].Val # skip THEN <<rec[i].Val>> ELSE <<>>)
         \o FileVals(rec, i + 1, skip)

DatabaseFiles(records, skip) ==
    LET S == {i \in 1..Len(records) : Matches(records[i], StrDatabase, <<>>)} IN
    IF S = {} THEN <<>>
    ELSE FileVals(records[CHOOSE i \in S : \A j \in S : i <= j], 1, skip)

OpenedName == IF ret.a1 = <<>> THEN NdbLocal ELSE ret.a1

\* C1: Search returns exactly the matching records of the chain, in chain order
\* then record order, and an empty result without an error when none matches.
C1_SearchExactInOrder ==
    ret.op = "Search"
        => /\ ~ret.hung
           /\ ret.err = NoErr
           /\ ret.result = Select(ChainRecords, 1, ret.a1, ret.a2)

\* C2: Search includes each record of the chain at most once, so its result is
\* no longer than the number of matching records nor than the number of records.
C2_SearchAtMostOnce ==
    (ret.op = "Search" /\ ~ret.hung)
        => /\ Len(ret.result) <= Cardinality(MatchingIn(ret.a1, ret.a2))
           /\ Len(ret.result) <= Len(ChainRecords)

\* C3: after a successful Open(path) the chain is the handle for path followed
\* by one handle for each file tuple of the head's database record whose value
\* differs from path, in the order listed; the head file is first, exactly once.
C3_OpenHeadFirst ==
    (ret.op = "Open" /\ ret.err = NoErr)
        => /\ ~Cyclic(heap, root)
           /\ ChainNames = <<OpenedName>> \o DatabaseFiles(heap[1].records, OpenedName)

\* C4: Reopen is all-or-nothing over the chain: when it returns an error every
\* handle is as it was before the call, when it returns nil every handle holds
\* what the file system holds.
C4_ReopenAllOrNothing ==
    [][Reopen =>
         /\ (ret'.err # NoErr => heap' = heap)
         /\ (ret'.err = NoErr /\ ~ret'.hung =>
               \A id \in 1..Len(heap') :
                   /\ heap'[id].mtime = disk[heap'[id].filename].mtime
                   /\ heap'[id].data = disk[heap'[id].filename].data)]_vars

AllStatable == \A id \in 1..Len(heap) : Exists(disk, heap[id].filename)
SomeStale == \E id \in 1..Len(heap) : heap[id].mtime # disk[heap[id].filename].mtime

\* C6: with no file written or removed since the last successful Open or
\* Reopen, Changed returns (false, nil); when the files can all be stat-ed and
\* the modification time of some handle's file differs from the stored one,
\* Changed returns (true, nil).
C6_ChangedTracksModification ==
    /\ (ret.op = "Changed" /\ ~modified)
          => (~ret.hung /\ ret.err = NoErr /\ ~ret.changed)
    /\ (ret.op = "Changed" /\ AllStatable /\ SomeStale)
          => (~ret.hung /\ ret.err = NoErr /\ ret.changed)

\* C10: the chain of a successful Open is finite and acyclic: nil is reached
\* after at most 1 + (number of file tuples of the head's database record)
\* handles, none visited twice, and Search, Changed and Reopen on it terminate.
C10_ChainAcyclic ==
    root # 0
        => /\ ~Cyclic(heap, root)
           /\ Len(ChainWalk(heap, root, {})) <= 1 + Len(DatabaseFiles(heap[1].records, <<"none">>))
           /\ ~ret.hung

====
